---- MODULE Spec2Model ----
(***************************************************************************)
(* Model of the two scripts of the repository:                             *)
(*   convert_words_to_mp3.py       word list -> bilingual MP3 (pipeline A)  *)
(*   longman3000/categorize_words.py   translate / split (pipeline B)       *)
(* Four specifications share the module: SpecA (conversion run), SpecB     *)
(* (translate_words with its cache), SpecP (parse_word_file) and SpecS     *)
(* (split_large_categories).                                               *)
(***************************************************************************)
EXTENDS Integers, Sequences, FiniteSets, TLC

VARIABLES
    \* ---- pipeline A: convert_words_to_mp3.py
    nFiles,       \* len(txt_files) of process_directory
    fileIdx,      \* position of the for loop over txt_files (0-based)
    results,      \* return value of each finished convert_file_to_mp3
    outputs,      \* indexes of the files whose output mp3 was written
    runState,     \* "running" | "done" | "raised" (an exception left main)
    pc,           \* position inside convert_file_to_mp3
    words,        \* parse_word_file(input_file) of the current job
    i,            \* loop index of "for i, (chinese, english) in enumerate(words)"
    audio_files,  \* the fragment list under construction
    workspace,    \* the TemporaryDirectory: [exists, files]
    calls,        \* text_to_speech coroutines that have not been joined
    merged,       \* what merge_audio_files was handed (NoMerge before)
    toolError,    \* first failure of the external audio tool (ffmpeg)
    \* ---- pipeline B: translate_words
    bWords, cacheFile, translations, todo, bi, bpc, run, backendCalls, cacheHits,
    \* ---- parse_word_file
    fileText, parsed,
    \* ---- split_large_categories
    categories, splitResult

varsA == <<nFiles, fileIdx, results, outputs, runState, pc, words, i,
           audio_files, workspace, calls, merged, toolError>>
varsB == <<bWords, cacheFile, translations, todo, bi, bpc, run, backendCalls, cacheHits>>
varsP == <<fileText, parsed>>
varsS == <<categories, splitResult>>
vars == <<varsA, varsB, varsP, varsS>>

(***************************************************************************)
(* Bounds of the model.                                                    *)
(***************************************************************************)
MaxFiles == 2
MaxEntries == 2

(***************************************************************************)
(* Program constants of convert_words_to_mp3.py.                           *)
(***************************************************************************)
PAUSE_BETWEEN_WORDS == 800
PAUSE_BETWEEN_LANGUAGES == 500
MAX_RETRIES == 3
RETRY_DELAY == 1
FALLBACK_MS == 100

None == "None"
EmptyFn == [x \in {} |-> x]

\* A WordEntry as parse_word_file returns it: (chinese, english) or (chinese, None).
Entries == {[chinese |-> "zh", english |-> "en"], [chinese |-> "zh", english |-> None]}

\* The word lists a *.txt file may parse to.
WordLists == UNION {[1..n -> Entries] : n \in 0..MaxEntries}

\* Paths inside temp_dir.
silence_file == <<"silence.mp3", 0>>
short_silence_file == <<"short_silence.mp3", 0>>
list_file == <<"filelist.txt", 0>>
chinese_file(k) == <<"word_zh.mp3", k>>
english_file(k) == <<"word_en.mp3", k>>

Speech == [kind |-> "speech", ms |-> 0]
Silence(ms) == [kind |-> "silence", ms |-> ms]
Missing == [kind |-> "missing", ms |-> 0]

NoMerge == [done |-> FALSE, list |-> <<>>, kinds |-> <<>>]
NoError == [tool |-> "none", file |-> -1]

\* tempfile.TemporaryDirectory().__enter__
NewWorkspace == [exists |-> TRUE, files |-> EmptyFn]

\* Leaving the "with tempfile.TemporaryDirectory()" block, by return or by exception.
ScopedExit_leak(ws) == ws
ScopedExit(ws) == [exists |-> FALSE, files |-> EmptyFn]

\* A file written into temp_dir; nothing can be created once the directory is gone.
WriteFile(ws, p, content) ==
    IF ws.exists
    THEN [ws EXCEPT !.files = [q \in (DOMAIN ws.files) \cup {p} |->
                                  IF q = p THEN content ELSE ws.files[q]]]
    ELSE ws

ReadFile(ws, p) == IF p \in DOMAIN ws.files THEN ws.files[p] ELSE Missing

\* subprocess.run(cmd, capture_output=True, check=True): a failed ffmpeg raises.
SubprocessRaises_unchecked(ok) == FALSE
SubprocessRaises(ok) == ~ok

NoteToolError(tool) ==
    IF toolError.tool = "none" THEN [tool |-> tool, file |-> fileIdx] ELSE toolError

\* "if attempt < MAX_RETRIES - 1" of text_to_speech.
ShouldRetry_offByOne(attempt) == attempt < MAX_RETRIES
ShouldRetry(attempt) == attempt < MAX_RETRIES - 1

\* "if i < len(words) - 1" of convert_file_to_mp3.
NotLast_always(k, n) == k < n
NotLast(k, n) == k < n - 1

\* process_directory ignores the value convert_file_to_mp3 returns.
DriverContinues_stopOnFalse(ret) == ret
DriverContinues(ret) == TRUE

\* A text_to_speech coroutine at its first attempt.
NewCall(entry, output_file) ==
    [entry |-> entry, output_file |-> output_file, attempt |-> 0, invocations |-> 0,
     failures |-> 0, delay |-> 0, tool |-> "none", st |-> "try"]

\* The two coroutines of entry k, named by their voice.
chinese_call(k) == <<"CHINESE_VOICE", k>>
english_call(k) == <<"ENGLISH_VOICE", k>>

\* The except branch of the last attempt: the fallback clip is generated by the
\* audio tool and the call returns False, unless the tool itself raises.
AfterLastFailure_reraise(ok) == "raised"
AfterLastFailure(ok) == IF SubprocessRaises(ok) THEN "raised" ELSE "fallback"

Returned(c) == c.st \in {"ok", "fallback", "exhausted"}
InFlight(c) == c.st \in {"try", "sleep"}

\* asyncio.gather / await: the caller resumes when every awaited call is done.
JoinReady_first(cs) == \E p \in DOMAIN cs : Returned(cs[p])
JoinReady(cs) == \A p \in DOMAIN cs : Returned(cs[p])

Restrict(f, S) == [x \in S |-> f[x]]

InitA ==
    /\ nFiles \in 1..MaxFiles
    /\ fileIdx = 0
    /\ results = <<>>
    /\ outputs = {}
    /\ runState = "running"
    /\ pc = "idle"
    /\ words = <<>>
    /\ i = 0
    /\ audio_files = <<>>
    /\ workspace = [exists |-> FALSE, files |-> EmptyFn]
    /\ calls = EmptyFn
    /\ merged = NoMerge
    /\ toolError = NoError

\* The exception of a failed tool call leaves convert_file_to_mp3 and main.
Abort ==
    /\ workspace' = ScopedExit(workspace)
    /\ runState' = "raised"
    /\ pc' = "raised"

\* convert_file_to_mp3 up to "return False": the file has no usable entry.
StartJobEmpty(ws) ==
    /\ runState = "running" /\ pc = "idle" /\ fileIdx < nFiles
    /\ ws = <<>>
    /\ words' = ws
    /\ merged' = NoMerge
    /\ results' = Append(results, FALSE)
    /\ IF DriverContinues(FALSE)
       THEN fileIdx' = fileIdx + 1 /\ runState' = runState
       ELSE fileIdx' = fileIdx /\ runState' = "done"
    /\ UNCHANGED <<varsB, varsP, varsS, nFiles, outputs, pc, i, audio_files, workspace, calls, toolError>>

\* convert_file_to_mp3 up to the creation of the temporary directory.
StartJob(ws) ==
    /\ runState = "running" /\ pc = "idle" /\ fileIdx < nFiles
    /\ ws # <<>>
    /\ words' = ws
    /\ merged' = NoMerge
    /\ workspace' = NewWorkspace
    /\ audio_files' = <<>>
    /\ i' = 0
    /\ pc' = "silence"
    /\ UNCHANGED <<varsB, varsP, varsS, nFiles, fileIdx, results, outputs, runState, calls, toolError>>

\* await generate_silence(silence_file, PAUSE_BETWEEN_WORDS)
GenSilence(ok) ==
    /\ runState = "running" /\ pc = "silence"
    /\ toolError' = IF ok THEN toolError ELSE NoteToolError("generate_silence")
    /\ IF SubprocessRaises(ok)
       THEN Abort
       ELSE /\ workspace' = IF ok
                            THEN WriteFile(workspace, silence_file, Silence(PAUSE_BETWEEN_WORDS))
                            ELSE workspace
            /\ pc' = "short_silence"
            /\ runState' = runState
    /\ UNCHANGED <<varsB, varsP, varsS, nFiles, fileIdx, results, outputs, words, i, audio_files, calls, merged>>

\* await generate_silence(short_silence_file, PAUSE_BETWEEN_LANGUAGES)
GenShortSilence(ok) ==
    /\ runState = "running" /\ pc = "short_silence"
    /\ toolError' = IF ok THEN toolError ELSE NoteToolError("generate_silence")
    /\ IF SubprocessRaises(ok)
       THEN Abort
       ELSE /\ workspace' = IF ok
                            THEN WriteFile(workspace, short_silence_file,
                                           Silence(PAUSE_BETWEEN_LANGUAGES))
                            ELSE workspace
            /\ pc' = "entry"
            /\ runState' = runState
    /\ UNCHANGED <<varsB, varsP, varsS, nFiles, fileIdx, results, outputs, words, i, audio_files, calls, merged>>

\* Loop body, "if english is None": one text_to_speech is awaited.
StartEntryPrimaryOnly ==
    /\ runState = "running" /\ pc = "entry" /\ i < Len(words)
    /\ words[i + 1].english = None
    /\ calls' = (chinese_call(i) :> NewCall(i, chinese_file(i))) @@ calls
    /\ pc' = "gather"
    /\ UNCHANGED <<varsB, varsP, varsS, nFiles, fileIdx, results, outputs, runState, words, i, audio_files,
                   workspace, merged, toolError>>

\* Loop body, else branch: asyncio.gather of the two text_to_speech calls.
StartEntryBilingual ==
    /\ runState = "running" /\ pc = "entry" /\ i < Len(words)
    /\ words[i + 1].english # None
    /\ calls' = (chinese_call(i) :> NewCall(i, chinese_file(i)))
                 @@ (english_call(i) :> NewCall(i, english_file(i))) @@ calls
    /\ pc' = "gather"
    /\ UNCHANGED <<varsB, varsP, varsS, nFiles, fileIdx, results, outputs, runState, words, i, audio_files,
                   workspace, merged, toolError>>

\* text_to_speech: communicate.save succeeds, "return True".
BackendSuccess(p) ==
    /\ p \in DOMAIN calls /\ calls[p].st = "try"
    /\ calls' = [calls EXCEPT ![p] = [@ EXCEPT !.invocations = @ + 1, !.st = "ok"]]
    /\ workspace' = WriteFile(workspace, calls[p].output_file, Speech)
    /\ UNCHANGED <<varsB, varsP, varsS, nFiles, fileIdx, results, outputs, runState, pc, words, i, audio_files,
                   merged, toolError>>

\* text_to_speech: communicate.save raises and another attempt is left.
BackendFailureRetry(p) ==
    /\ p \in DOMAIN calls /\ calls[p].st = "try"
    /\ ShouldRetry(calls[p].attempt)
    /\ calls' = [calls EXCEPT ![p] = [@ EXCEPT !.invocations = @ + 1, !.failures = @ + 1,
                                               !.delay = @ + RETRY_DELAY, !.st = "sleep"]]
    /\ UNCHANGED <<varsB, varsP, varsS, nFiles, fileIdx, results, outputs, runState, pc, words, i, audio_files,
                   workspace, merged, toolError>>

\* text_to_speech: communicate.save raises on the last attempt; the fallback
\* generate_silence(output_file, 100) runs inside the except block.
BackendFailureFallback(p, ok) ==
    /\ p \in DOMAIN calls /\ calls[p].st = "try"
    /\ ~ShouldRetry(calls[p].attempt)
    /\ ok => workspace.exists
    /\ toolError' = IF ok THEN toolError ELSE NoteToolError("generate_silence")
    /\ workspace' = IF ok
                    THEN WriteFile(workspace, calls[p].output_file, Silence(FALLBACK_MS))
                    ELSE workspace
    /\ calls' = [calls EXCEPT ![p] =
                    [@ EXCEPT !.invocations = @ + 1, !.failures = @ + 1,
                              !.tool = IF ok THEN "ok" ELSE "failed",
                              !.st = AfterLastFailure(ok)]]
    /\ UNCHANGED <<varsB, varsP, varsS, nFiles, fileIdx, results, outputs, runState, pc, words, i, audio_files,
                   merged>>

\* text_to_speech: asyncio.sleep(1) is over, the for loop takes its next attempt
\* (or, with the range exhausted, falls through to the final "return False").
Wake(p) ==
    /\ p \in DOMAIN calls /\ calls[p].st = "sleep"
    /\ calls' = [calls EXCEPT ![p] =
                    [@ EXCEPT !.attempt = @ + 1,
                              !.st = IF calls[p].attempt + 1 < MAX_RETRIES
                                     THEN "try" ELSE "exhausted"]]
    /\ UNCHANGED <<varsB, varsP, varsS, nFiles, fileIdx, results, outputs, runState, pc, words, i, audio_files,
                   workspace, merged, toolError>>

\* The awaited call(s) returned: the fragments of entry i are appended.
JoinOk ==
    /\ runState = "running" /\ pc = "gather"
    /\ ~\E p \in DOMAIN calls : calls[p].st = "raised"
    /\ JoinReady(calls)
    /\ LET own == IF words[i + 1].english = None
                  THEN <<chinese_file(i)>>
                  ELSE <<chinese_file(i), short_silence_file, english_file(i)>>
           sep == IF NotLast(i, Len(words)) THEN <<silence_file>> ELSE <<>>
       IN  audio_files' = audio_files \o own \o sep
    /\ calls' = Restrict(calls, {p \in DOMAIN calls : InFlight(calls[p])})
    /\ i' = i + 1
    /\ pc' = IF i + 1 < Len(words) THEN "entry" ELSE "merge"
    /\ UNCHANGED <<varsB, varsP, varsS, nFiles, fileIdx, results, outputs, runState, words, workspace, merged,
                   toolError>>

\* An awaited call raised: the exception leaves the with block and the job.
JoinRaise ==
    /\ runState = "running" /\ pc = "gather"
    /\ \E p \in DOMAIN calls : calls[p].st = "raised"
    /\ Abort
    /\ calls' = Restrict(calls, {p \in DOMAIN calls : InFlight(calls[p])})
    /\ UNCHANGED <<varsB, varsP, varsS, nFiles, fileIdx, results, outputs, words, i, audio_files, merged,
                   toolError>>

\* await merge_audio_files(audio_files, output_file, temp_dir), the end of the
\* with block and "return True".
Merge(ok) ==
    /\ runState = "running" /\ pc = "merge"
    /\ merged' = [done |-> TRUE, list |-> audio_files,
                  kinds |-> [k \in 1..Len(audio_files) |-> ReadFile(workspace, audio_files[k])]]
    /\ toolError' = IF ok THEN toolError ELSE NoteToolError("merge_audio_files")
    /\ IF SubprocessRaises(ok)
       THEN /\ Abort
            /\ UNCHANGED <<fileIdx, results, outputs>>
       ELSE /\ workspace' = ScopedExit(WriteFile(workspace, list_file, Speech))
            /\ outputs' = IF ok THEN outputs \cup {fileIdx} ELSE outputs
            /\ results' = Append(results, TRUE)
            /\ pc' = "idle"
            /\ IF DriverContinues(TRUE)
               THEN fileIdx' = fileIdx + 1 /\ runState' = runState
               ELSE fileIdx' = fileIdx /\ runState' = "done"
    /\ UNCHANGED <<varsB, varsP, varsS, nFiles, words, i, audio_files, calls>>

\* process_directory: the for loop over txt_files is exhausted.
FinishRun ==
    /\ runState = "running" /\ pc = "idle" /\ fileIdx = nFiles
    /\ runState' = "done"
    /\ UNCHANGED <<varsB, varsP, varsS, nFiles, fileIdx, results, outputs, pc, words, i, audio_files, workspace,
                   calls, merged, toolError>>

\* asyncio.run(main()) cancels the tasks that are still pending when main ends.
CancelPending ==
    /\ runState = "raised"
    /\ \E p \in DOMAIN calls : InFlight(calls[p])
    /\ calls' = [p \in DOMAIN calls |->
                    IF InFlight(calls[p]) THEN [calls[p] EXCEPT !.st = "cancelled"]
                    ELSE calls[p]]
    /\ UNCHANGED <<varsB, varsP, varsS, nFiles, fileIdx, results, outputs, runState, pc, words, i, audio_files,
                   workspace, merged, toolError>>

AllCalls == {chinese_call(k) : k \in 0..MaxEntries} \cup {english_call(k) : k \in 0..MaxEntries}

NextA ==
    \/ \E ws \in WordLists : StartJobEmpty(ws)
    \/ \E ws \in WordLists : StartJob(ws)
    \/ \E ok \in BOOLEAN : GenSilence(ok)
    \/ \E ok \in BOOLEAN : GenShortSilence(ok)
    \/ StartEntryPrimaryOnly
    \/ StartEntryBilingual
    \/ \E p \in AllCalls : BackendSuccess(p)
    \/ \E p \in AllCalls : BackendFailureRetry(p)
    \/ \E p \in AllCalls, ok \in BOOLEAN : BackendFailureFallback(p, ok)
    \/ \E p \in AllCalls : Wake(p)
    \/ JoinOk
    \/ JoinRaise
    \/ \E ok \in BOOLEAN : Merge(ok)
    \/ FinishRun
    \/ CancelPending


(***************************************************************************)
(* parse_word_file.  A file is a string over a small alphabet: a blank, a  *)
(* '#', a letter and the line break.                                       *)
(***************************************************************************)
MaxFileLen == 7

Chars == {" ", "#", "a", "\n"}
FileTexts == UNION {[1..n -> Chars] : n \in 0..MaxFileLen}

\* (chinese, None) and (chinese, english): the second component as an option.
Absent == {}
Some(x) == {x}

\* str.isspace, as str.strip and str.split(None) use it.
IsSpace(c) == c \in {" ", "\n"}

RECURSIVE FileLines(_)
\* "for line in f": the lines of the text, each with its line break.
FileLines(s) ==
    IF s = <<>> THEN <<>>
    ELSE IF \E k \in 1..Len(s) : s[k] = "\n"
         THEN LET k == CHOOSE k \in 1..Len(s) : s[k] = "\n" /\ \A j \in 1..(k - 1) : s[j] # "\n"
              IN  <<SubSeq(s, 1, k)>> \o FileLines(SubSeq(s, k + 1, Len(s)))
         ELSE <<s>>

RECURSIVE LStrip(_)
LStrip(s) == IF s # <<>> /\ IsSpace(Head(s)) THEN LStrip(Tail(s)) ELSE s

RECURSIVE RStrip(_)
RStrip(s) == IF s # <<>> /\ IsSpace(s[Len(s)]) THEN RStrip(SubSeq(s, 1, Len(s) - 1)) ELSE s

\* line.strip()
Strip(s) == RStrip(LStrip(s))

\* "if not line or line.startswith('#')"
SkipLine_blankOnly(line) == line = <<>>
SkipLine(line) == line = <<>> \/ line[1] = "#"

RECURSIVE TokenLen(_)
\* Length of the leading run of non-blank characters.
TokenLen(s) == IF s = <<>> \/ IsSpace(Head(s)) THEN 0 ELSE 1 + TokenLen(Tail(s))

\* line.split(None, 1)
SplitOnce(s) ==
    LET t == LStrip(s)
        n == TokenLen(t)
        rest == LStrip(SubSeq(t, n + 1, Len(t)))
    IN  IF t = <<>> THEN <<>>
        ELSE IF rest = <<>> THEN <<SubSeq(t, 1, n)>>
        ELSE <<SubSeq(t, 1, n), rest>>

\* One iteration of the loop of parse_word_file.
ParseLine(acc, raw) ==
    LET line == Strip(raw)
        parts == SplitOnce(line)
    IN  IF SkipLine(line) THEN acc
        ELSE IF Len(parts) >= 2
             THEN Append(acc, [chinese |-> parts[1], english |-> Some(parts[2])])
        ELSE IF Len(parts) = 1
             THEN Append(acc, [chinese |-> parts[1], english |-> Absent])
        ELSE acc

RECURSIVE ParseLines(_, _)
ParseLines(acc, ls) == IF ls = <<>> THEN acc ELSE ParseLines(ParseLine(acc, Head(ls)), Tail(ls))

parse_word_file(text) == ParseLines(<<>>, FileLines(text))

NotParsed == [done |-> FALSE, words |-> <<>>]

InitP ==
    /\ fileText \in FileTexts
    /\ parsed = NotParsed

ParseWordFile ==
    /\ ~parsed.done
    /\ parsed' = [done |-> TRUE, words |-> parse_word_file(fileText)]
    /\ UNCHANGED <<varsA, varsB, varsS, fileText>>

NextP == ParseWordFile

(***************************************************************************)
(* split_large_categories.  Category names come from the fixed taxonomy    *)
(* (LEXNAME_TO_CHINESE, CATEGORY_MERGE, the uncategorized bucket), none of *)
(* which contains '_': "<name>_<k>" never equals a category name, so an    *)
(* output name is modelled as the pair <<name, k>>, with k = 0 for the     *)
(* plain name.                                                             *)
(***************************************************************************)
MaxCatWords == 121
max_size == 60

CategoryNames == {"catA", "uncategorized"}
CatIndex(c) == IF c = "catA" THEN 1 ELSE 2
WordsOf(c, n) == [k \in 1..n |-> 1000 * CatIndex(c) + k]

Min(a, b) == IF a < b THEN a ELSE b

\* num_parts = (len(words) + max_size - 1) // max_size
NumParts_floor(n) == n \div max_size
NumParts(n) == (n + max_size - 1) \div max_size

\* sub_name of part k (0-based) of a category split into np parts.
SubName(c, k, np) == IF np > 1 THEN <<c, k + 1>> ELSE <<c, 0>>

\* The entries one category adds to result.
SplitOne(c, ws) ==
    IF Len(ws) <= max_size
    THEN (<<c, 0>> :> ws)
    ELSE LET np == NumParts(Len(ws))
             keys == {SubName(c, k, np) : k \in 0..(np - 1)}
             last(key) == CHOOSE k \in 0..(np - 1) :
                             /\ SubName(c, k, np) = key
                             /\ \A j \in 0..(np - 1) : SubName(c, j, np) = key => j <= k
         IN  [key \in keys |->
                 SubSeq(ws, last(key) * max_size + 1,
                        Min((last(key) + 1) * max_size, Len(ws)))]

split_large_categories(cats) ==
    LET keys == UNION {DOMAIN SplitOne(c, cats[c]) : c \in DOMAIN cats}
    IN  [key \in keys |-> SplitOne(key[1], cats[key[1]])[key]]

NotSplit == [done |-> FALSE, out |-> EmptyFn]

InitS ==
    /\ \E D \in SUBSET CategoryNames :
          \E size \in [D -> 1..MaxCatWords] :
             categories = [c \in D |-> WordsOf(c, size[c])]
    /\ splitResult = NotSplit

SplitLargeCategories ==
    /\ ~splitResult.done
    /\ splitResult' = [done |-> TRUE, out |-> split_large_categories(categories)]
    /\ UNCHANGED <<varsA, varsB, varsP, categories>>

NextS == SplitLargeCategories

(***************************************************************************)
(* translate_words with its cache file, run twice over the same word list. *)
(***************************************************************************)
MaxWords == 3
batch_size == 50

WordIds == 1..MaxWords
WordSeqs == {s \in UNION {[1..n -> WordIds] : n \in 0..MaxWords} :
                \A a, b \in DOMAIN s : a # b => s[a] # s[b]}

NoFile == [exists |-> FALSE, data |-> EmptyFn]

\* batch = words_to_translate[i:i+batch_size]
Batch(ws, k) == SubSeq(ws, k + 1, Min(k + batch_size, Len(ws)))

SeqRange(s) == {s[k] : k \in DOMAIN s}

\* "for word, trans in zip(batch, translated): translations[word] = trans.strip()"
ZipAssign(tr, batch, nLines) ==
    LET n == Min(Len(batch), nLines)
        ws == {batch[k] : k \in 1..n}
    IN  [w \in (DOMAIN tr) \cup ws |->
            IF w \in ws
            THEN <<"line", CHOOSE k \in 1..n : batch[k] = w>>
            ELSE tr[w]]

InitB ==
    /\ bWords \in WordSeqs
    /\ cacheFile = NoFile
    /\ translations = EmptyFn
    /\ todo = <<>>
    /\ bi = 0
    /\ bpc = "start"
    /\ run = 1
    /\ backendCalls = 0
    /\ cacheHits = 0

\* translate_words: load the cache, "words_to_translate = [w for w in words if
\* w not in translations]".
LoadCache ==
    /\ bpc = "start"
    /\ LET tr == IF cacheFile.exists THEN cacheFile.data ELSE EmptyFn
           wtt == SelectSeq(bWords, LAMBDA w : w \notin DOMAIN tr)
       IN  /\ translations' = tr
           /\ todo' = wtt
           /\ cacheHits' = Len(bWords) - Len(wtt)
           /\ bpc' = IF wtt # <<>> THEN "batch" ELSE "return"
    /\ bi' = 0
    /\ backendCalls' = 0
    /\ UNCHANGED <<varsA, varsP, varsS, bWords, cacheFile, run>>

\* One batch: translator.translate(text) returns nLines lines.
BatchTranslated(nLines) ==
    /\ bpc = "batch" /\ bi < Len(todo)
    /\ nLines \in 1..(Len(Batch(todo, bi)) + 1)
    /\ translations' = ZipAssign(translations, Batch(todo, bi), nLines)
    /\ backendCalls' = backendCalls + 1
    /\ bi' = bi + batch_size
    /\ bpc' = IF bi + batch_size < Len(todo) THEN "batch" ELSE "save"
    /\ UNCHANGED <<varsA, varsP, varsS, bWords, cacheFile, todo, run, cacheHits>>

\* One batch: the batch call raises; each word is translated alone, the words of
\* failed keep their own text.
BatchFailed(failed) ==
    /\ bpc = "batch" /\ bi < Len(todo)
    /\ failed \subseteq SeqRange(Batch(todo, bi))
    /\ translations' = [w \in (DOMAIN translations) \cup SeqRange(Batch(todo, bi)) |->
                           IF w \in SeqRange(Batch(todo, bi))
                           THEN IF w \in failed THEN <<"word", w>> ELSE <<"single", w>>
                           ELSE translations[w]]
    /\ backendCalls' = backendCalls + 1 + Len(Batch(todo, bi))
    /\ bi' = bi + batch_size
    /\ bpc' = IF bi + batch_size < Len(todo) THEN "batch" ELSE "save"
    /\ UNCHANGED <<varsA, varsP, varsS, bWords, cacheFile, todo, run, cacheHits>>

\* json.dump(translations, f): the cache file is rewritten.
SaveCache ==
    /\ bpc = "save"
    /\ cacheFile' = [exists |-> TRUE, data |-> translations]
    /\ bpc' = "return"
    /\ UNCHANGED <<varsA, varsP, varsS, bWords, translations, todo, bi, run, backendCalls,
                   cacheHits>>

\* The script is run again over the same allwords.txt.
Rerun ==
    /\ bpc = "return" /\ run = 1
    /\ run' = 2
    /\ bpc' = "start"
    /\ UNCHANGED <<varsA, varsP, varsS, bWords, cacheFile, translations, todo, bi,
                   backendCalls, cacheHits>>

NextB ==
    \/ LoadCache
    \/ \E n \in 1..(MaxWords + 1) : BatchTranslated(n)
    \/ \E F \in SUBSET WordIds : BatchFailed(F)
    \/ SaveCache
    \/ Rerun

(***************************************************************************)
(* The specifications.  Each one runs its own part; the variables of the   *)
(* other parts stay at rest.                                               *)
(***************************************************************************)
RestA ==
    /\ nFiles = 0 /\ fileIdx = 0 /\ results = <<>> /\ outputs = {}
    /\ runState = "done" /\ pc = "idle" /\ words = <<>> /\ i = 0
    /\ audio_files = <<>> /\ workspace = [exists |-> FALSE, files |-> EmptyFn]
    /\ calls = EmptyFn /\ merged = NoMerge /\ toolError = NoError

RestB ==
    /\ bWords = <<>> /\ cacheFile = NoFile /\ translations = EmptyFn /\ todo = <<>>
    /\ bi = 0 /\ bpc = "return" /\ run = 2 /\ backendCalls = 0 /\ cacheHits = 0

RestP == fileText = <<>> /\ parsed = [done |-> TRUE, words |-> <<>>]

RestS == categories = EmptyFn /\ splitResult = [done |-> TRUE, out |-> EmptyFn]

InitRunA == InitA /\ RestB /\ RestP /\ RestS
InitRunB == RestA /\ InitB /\ RestP /\ RestS
InitRunP == RestA /\ RestB /\ InitP /\ RestS
InitRunS == RestA /\ RestB /\ RestP /\ InitS

SpecA == InitRunA /\ [][NextA]_vars
SpecB == InitRunB /\ [][NextB]_vars
SpecP == InitRunP /\ [][NextP]_vars
SpecS == InitRunS /\ [][NextS]_vars


(***************************************************************************)
(* Properties of the conversion run (SpecA).                               *)
(***************************************************************************)
AllBilingual(ws) == \A k \in DOMAIN ws : ws[k].english # None

RECURSIVE DocumentOrder(_, _)
\* The fragments of entries k, k+1, ... of ws (0-based), in document order:
\* primary, inter-language silence, secondary (or the primary alone), with one
\* inter-word silence before the next entry.
DocumentOrder(ws, k) ==
    IF k >= Len(ws) THEN <<>>
    ELSE (IF ws[k + 1].english = None
          THEN <<chinese_file(k)>>
          ELSE <<chinese_file(k), short_silence_file, english_file(k)>>)
         \o (IF k + 1 < Len(ws) THEN <<silence_file>> ELSE <<>>)
         \o DocumentOrder(ws, k + 1)

TitleCount(ws) == Cardinality({k \in DOMAIN ws : ws[k].english = None})

\* C1: the fragment list handed to merge_audio_files is, in document order,
\* [primary_i, inter-language silence, secondary_i] per entry (the primary alone
\* for an entry without secondary text), one inter-word silence between
\* consecutive entries and none after the last; with N bilingual entries it has
\* exactly 3N + (N-1) fragments.
C1_FragmentOrder ==
    merged.done =>
        /\ merged.list = DocumentOrder(words, 0)
        /\ Len(merged.list) = 3 * (Len(words) - TitleCount(words)) + TitleCount(words)
                              + (Len(words) - 1)
        /\ AllBilingual(words) => Len(merged.list) = 3 * Len(words) + (Len(words) - 1)
        /\ merged.list[Len(merged.list)] # silence_file

C1_Witness ==
    /\ merged.done
    /\ Len(words) >= 2
    /\ AllBilingual(words)

\* C2 as stated: a call whose every attempt failed always returns with the
\* fallback clip written, it never raises.
C2_AlwaysReturns ==
    \A p \in DOMAIN calls :
        calls[p].failures = MAX_RETRIES => calls[p].st = "fallback"

WordSlots(list) == {k \in DOMAIN list : list[k] \notin {silence_file, short_silence_file}}

\* C2 amended: when every attempt failed, the backend's error is not propagated:
\* the audio tool is asked for the fallback clip, and the call returns with the
\* clip at its output path unless that tool call itself fails, in which case the
\* tool's error is raised.  A job is aborted by a tool failure only, and every
\* word slot handed to the concatenation holds speech or the fallback clip.
C2_DegradeToSilence ==
    /\ \A p \in DOMAIN calls :
          calls[p].failures = MAX_RETRIES =>
              \/ /\ calls[p].tool = "ok"
                 /\ calls[p].st = "fallback"
                 /\ ReadFile(workspace, calls[p].output_file) = Silence(FALLBACK_MS)
              \/ /\ calls[p].tool = "failed"
                 /\ calls[p].st = "raised"
    /\ runState = "raised" => toolError # NoError
    /\ merged.done =>
          \A k \in WordSlots(merged.list) :
              merged.kinds[k] \in {Speech, Silence(FALLBACK_MS)}

C2_Witness ==
    /\ merged.done
    /\ \E k \in WordSlots(merged.list) : merged.kinds[k] = Silence(FALLBACK_MS)
    /\ pc = "idle" /\ results # <<>> /\ results[Len(results)]

\* C3: a text_to_speech call invokes the backend at most MAX_RETRIES times, only
\* after a failed attempt, never after a successful one; the delay is taken after
\* each failed attempt but the last, so at most MAX_RETRIES - 1 times, and the
\* fallback is reached with exactly that many delays.
C3_BoundedRetry ==
    \A p \in DOMAIN calls :
        LET c == calls[p] IN
        /\ c.invocations <= MAX_RETRIES
        /\ c.invocations = c.failures + (IF c.st = "ok" THEN 1 ELSE 0)
        /\ c.delay = RETRY_DELAY * (IF c.failures = MAX_RETRIES
                                    THEN MAX_RETRIES - 1 ELSE c.failures)
        /\ c.delay <= (MAX_RETRIES - 1) * RETRY_DELAY
        /\ c.st \in {"fallback", "raised"} => c.failures = MAX_RETRIES
        /\ c.st # "exhausted"

C3_Witness ==
    \E p \in DOMAIN calls :
        /\ calls[p].st = "fallback"
        /\ calls[p].invocations = MAX_RETRIES
        /\ calls[p].delay = (MAX_RETRIES - 1) * RETRY_DELAY

\* C4: whenever a job has ended, by return or by an exception, the temporary
\* directory and every file in it are gone.
C4_WorkspaceReleased ==
    pc \in {"idle", "raised"} =>
        /\ ~workspace.exists
        /\ DOMAIN workspace.files = {}

C4_Witness ==
    /\ pc = "raised"
    /\ toolError.tool = "generate_silence"
    /\ audio_files # <<>>

InFlightCalls == {p \in DOMAIN calls : InFlight(calls[p])}

\* C5: at most two synthesis calls are in flight, they are the calls of the
\* current entry and write to distinct files; a call of a later entry is never
\* in flight together with one of an earlier entry.
C5_TwoWayFanOut ==
    /\ Cardinality(InFlightCalls) <= 2
    /\ \A p \in InFlightCalls : calls[p].entry = i
    /\ \A p, q \in InFlightCalls :
          p # q => calls[p].output_file # calls[q].output_file
    /\ \A p \in InFlightCalls : runState = "running" => pc = "gather"

C5_Witness ==
    /\ i = 1
    /\ \E p, q \in InFlightCalls :
          /\ p # q
          /\ calls[p].st = "sleep"
          /\ calls[q].st = "try" /\ calls[q].attempt = 1

\* C6: the driver runs one job per file, in order, and an empty file does not
\* stop it: the run ends normally only after every file had its job, and ends
\* early only on a failure of the audio tool.
C6_ContinueAfterEmpty ==
    /\ Len(results) <= nFiles
    /\ runState = "running" => Len(results) = fileIdx
    /\ runState = "done" => Len(results) = nFiles /\ fileIdx = nFiles
    /\ runState = "raised" => toolError # NoError
    /\ \A k \in DOMAIN results : results[k] <=> (k - 1) \in outputs

C6_Witness ==
    /\ runState = "done"
    /\ Len(results) >= 2
    /\ ~results[1]
    /\ results[2]

\* C7: a failure of the audio tool is never recovered: the job it happened in
\* raises (at once, or as soon as the awaited call is joined), it gets no result
\* and no output, and no later file is processed; only a tool failure ends a
\* run this way.
C7_ToolFailureFatal ==
    /\ toolError # NoError =>
          /\ \/ runState = "raised"
             \/ /\ runState = "running" /\ pc = "gather"
                /\ \E p \in DOMAIN calls : calls[p].st = "raised"
          /\ fileIdx = toolError.file
          /\ Len(results) = toolError.file
          /\ toolError.file \notin outputs
    /\ runState = "raised" => toolError # NoError /\ pc = "raised"

C7_Witness ==
    /\ runState = "raised"
    /\ toolError.tool = "merge_audio_files"
    /\ fileIdx + 1 < nFiles


(***************************************************************************)
(* Property of translate_words (SpecB).                                    *)
(***************************************************************************)
\* C8: the second run over the same word list, with the cache file the first
\* run left, makes no backend call, and every word of the list is a cache hit.
C8_CacheIdempotent ==
    (run = 2 /\ bpc # "start") =>
        /\ backendCalls = 0
        /\ cacheHits = Len(bWords)

(***************************************************************************)
(* Property of parse_word_file (SpecP), stated on the text of the file.    *)
(***************************************************************************)
SetMin(S) == CHOOSE x \in S : \A y \in S : x <= y
SetMax(S) == CHOOSE x \in S : \A y \in S : y <= x

\* Where the lines of the text start, and a line's text without its line break.
LineStarts(t) == {a \in 1..Len(t) : a = 1 \/ t[a - 1] = "\n"}
LineEnd(t, a) == SetMax({e \in (a - 1)..Len(t) : \A k \in a..e : t[k] # "\n"})
LineText(t, a) == SubSeq(t, a, LineEnd(t, a))

NonBlank(l) == {k \in 1..Len(l) : l[k] # " "}
IsEntryLine(l) == NonBlank(l) # {} /\ l[SetMin(NonBlank(l))] # "#"

\* The entry of a line that is neither blank nor a comment: its first token, and
\* what follows the blanks after that token, up to the last non-blank character.
EntryOfLine(l) ==
    LET f == SetMin(NonBlank(l))
        e == SetMax(NonBlank(l))
        te == SetMax({t \in f..e : \A k \in f..t : l[k] # " "})
    IN  IF te = e
        THEN [chinese |-> SubSeq(l, f, e), english |-> Absent]
        ELSE [chinese |-> SubSeq(l, f, te),
              english |-> Some(SubSeq(l, SetMin({k \in NonBlank(l) : k > te}), e))]

EntryLines(t) == {a \in LineStarts(t) : IsEntryLine(LineText(t, a))}

\* C9: the result has one entry per line that is neither blank nor a comment, in
\* file order; a one-token line gives (token, absent), a longer one (first
\* token, rest of the line after the first run of blanks).
C9_ParseLines ==
    parsed.done =>
        LET kept == EntryLines(fileText) IN
        /\ Len(parsed.words) = Cardinality(kept)
        /\ \A a \in kept :
              parsed.words[Cardinality({b \in kept : b < a}) + 1]
                  = EntryOfLine(LineText(fileText, a))

C9_Witness ==
    /\ parsed.done
    /\ Len(fileText) > 0 /\ fileText[1] = "#"
    /\ Len(parsed.words) = 2
    /\ parsed.words[1].english # Absent
    /\ parsed.words[2].english = Absent

(***************************************************************************)
(* Property of split_large_categories (SpecS).                             *)
(***************************************************************************)
PartsOf(out, c) == {key \in DOMAIN out : key[1] = c}

RECURSIVE SumSizes(_, _)
SumSizes(out, keys) ==
    IF keys = {} THEN 0
    ELSE LET key == CHOOSE key \in keys : TRUE
         IN  Len(out[key]) + SumSizes(out, keys \ {key})

\* C10: no output category has more than max_size words; a category of more than
\* max_size words becomes numbered parts whose sizes sum to its size; a category
\* of at most max_size words is output unchanged under its own name.
C10_SplitBounded ==
    splitResult.done =>
        LET out == splitResult.out IN
        /\ \A key \in DOMAIN out : Len(out[key]) <= max_size /\ key[1] \in DOMAIN categories
        /\ \A c \in DOMAIN categories :
              LET n == Len(categories[c])
                  parts == PartsOf(out, c)
              IN  IF n <= max_size
                  THEN parts = {<<c, 0>>} /\ out[<<c, 0>>] = categories[c]
                  ELSE /\ \E m \in 2..n : parts = {<<c, k>> : k \in 1..m}
                       /\ SumSizes(out, parts) = n

C10_Witness ==
    /\ splitResult.done
    /\ \E c \in DOMAIN categories :
          /\ Len(categories[c]) = max_size + 1
          /\ PartsOf(splitResult.out, c) = {<<c, 1>>, <<c, 2>>}
          /\ Len(splitResult.out[<<c, 1>>]) = max_size
          /\ Len(splitResult.out[<<c, 2>>]) = 1

====
